---- MODULE Spec2Model ----
(***************************************************************************)
(* Model of app.py: the Delhi AQI monitor.  One run of the script is a     *)
(* page load: fetch_live_aqi_data, the halt on error, the render, and the  *)
(* "Send SMS Alert" handler (nearest station, get_aqi_category,            *)
(* send_sms_fast2sms).  The two pure/local helpers are also exercised on   *)
(* their own over wider input sets (SpecCategory, SpecSms).                *)
(*                                                                         *)
(* Strings that the code inspects character by character (phone numbers,   *)
(* AQI fields) are sequences of one-character strings.  Floating point     *)
(* values are records: a finite value counts units of 1/Scale.             *)
(***************************************************************************)
EXTENDS Integers, Sequences, FiniteSets, TLC

VARIABLES
    FAST2SMS_API_KEY,  \* app.py:14, read once at process start
    WAQI_API_TOKEN,    \* app.py:15, read once at process start
    pc,                \* position of the running script / function
    netLog,            \* outbound HTTP requests issued so far, in order
    resp,              \* the provider's answer to the bounds request
    df,                \* the station table (DataFrame rows, in order)
    names,             \* fetch_live_aqi_data's local list `names`
    lookups,           \* per-station feed requests: uid asked and outcome
    fetchRet,          \* return value of fetch_live_aqi_data: (df, err)
    user_location,     \* st.text_input, app.py:201
    user_phone,        \* st.text_input, app.py:202
    nearest,           \* the row picked by the alert handler
    aqi,               \* argument of get_aqi_category
    category,          \* result of get_aqi_category
    message,           \* the alert text handed to send_sms_fast2sms
    phone_number,      \* send_sms_fast2sms's parameter / local
    sent,              \* `numbers` and `message` of each gateway request
    gateway,           \* the gateway's answer to the SMS request
    smsRet,            \* return value of send_sms_fast2sms
    raised             \* exception that escaped the script, or "none"

vars == <<FAST2SMS_API_KEY, WAQI_API_TOKEN, pc, netLog, resp, df, names,
          lookups, fetchRet, user_location, user_phone, nearest, aqi,
          category, message, phone_number, sent, gateway, smsRet, raised>>

----------------------------------------------------------------------------
(* Bounds of the model *)

\* finite floats are multiples of 1/Scale
Scale == 10000
\* whole AQI values tried on the classifier range over -MaxAqi..MaxAqi
MaxAqi == 320
\* a phone input is a concatenation of at most MaxSegs segments
MaxSegs == 3
\* the provider returns at most MaxRows station rows
MaxRows == 3

----------------------------------------------------------------------------
(* Floating point values *)

Num(v) == [k |-> "num", v |-> v]
Inf == [k |-> "inf", v |-> 1]
NegInf == [k |-> "inf", v |-> -1]
NaN == [k |-> "nan", v |-> 0]

IsNaN(x) == x.k = "nan"
IsFinite(x) == x.k = "num"

\* x <= n for a float x and a whole number n (any comparison with NaN is false)
FloatLe(x, n) ==
    CASE x.k = "nan" -> FALSE
      [] x.k = "inf" -> x.v < 0
      [] OTHER -> x.v <= n * Scale

\* x > n for a float x and a whole number n (used to state the bands)
FloatGt(x, n) ==
    CASE x.k = "nan" -> FALSE
      [] x.k = "inf" -> x.v > 0
      [] OTHER -> x.v > n * Scale

----------------------------------------------------------------------------
(* get_aqi_category, app.py:128-140 *)

\* x < n for a float x and a whole number n
FloatLt(x, n) ==
    CASE x.k = "nan" -> FALSE
      [] x.k = "inf" -> x.v < 0
      [] OTHER -> x.v < n * Scale

\* a plausible slip: strict comparisons, so each upper bound moves a band up
get_aqi_category_strict(x) ==
    IF FloatLt(x, 50) THEN <<"Good", "green circle", "Air quality is ideal.">>
    ELSE IF FloatLt(x, 100) THEN
        <<"Moderate", "yellow circle", "Acceptable air quality.">>
    ELSE IF FloatLt(x, 150) THEN
        <<"Unhealthy for Sensitive Groups", "orange circle",
          "Sensitive groups should reduce activity.">>
    ELSE IF FloatLt(x, 200) THEN
        <<"Unhealthy", "red circle",
          "General public should reduce outdoor activity.">>
    ELSE IF FloatLt(x, 300) THEN
        <<"Very Unhealthy", "purple circle",
          "Everyone may experience health effects.">>
    ELSE <<"Hazardous", "black circle", "Avoid going outdoors.">>

\* a plausible slip: the branch for the 200 threshold is missing
get_aqi_category_skip(x) ==
    IF FloatLe(x, 50) THEN <<"Good", "green circle", "Air quality is ideal.">>
    ELSE IF FloatLe(x, 100) THEN
        <<"Moderate", "yellow circle", "Acceptable air quality.">>
    ELSE IF FloatLe(x, 150) THEN
        <<"Unhealthy for Sensitive Groups", "orange circle",
          "Sensitive groups should reduce activity.">>
    ELSE IF FloatLe(x, 300) THEN
        <<"Very Unhealthy", "purple circle",
          "Everyone may experience health effects.">>
    ELSE <<"Hazardous", "black circle", "Avoid going outdoors.">>

get_aqi_category(x) ==
    IF FloatLe(x, 50) THEN <<"Good", "green circle", "Air quality is ideal.">>
    ELSE IF FloatLe(x, 100) THEN
        <<"Moderate", "yellow circle", "Acceptable air quality.">>
    ELSE IF FloatLe(x, 150) THEN
        <<"Unhealthy for Sensitive Groups", "orange circle",
          "Sensitive groups should reduce activity.">>
    ELSE IF FloatLe(x, 200) THEN
        <<"Unhealthy", "red circle",
          "General public should reduce outdoor activity.">>
    ELSE IF FloatLe(x, 300) THEN
        <<"Very Unhealthy", "purple circle",
          "Everyone may experience health effects.">>
    ELSE <<"Hazardous", "black circle", "Avoid going outdoors.">>

NoCategory == <<"", "", "">>

----------------------------------------------------------------------------
(* Character strings *)

AsciiDigits == {"0", "1", "2", "3", "4", "5", "6", "7", "8", "9"}
\* characters outside ASCII for which Python's str.isdigit() is true
UnicodeDigits == {"U+0663 ARABIC-INDIC DIGIT THREE", "U+00B2 SUPERSCRIPT TWO"}
Whitespace == {" "}

CountryCode == <<"+", "9", "1">>

\* str.replace("+91", ""): every non-overlapping occurrence, left to right
RECURSIVE RemoveAll(_)
RemoveAll(s) ==
    IF Len(s) < Len(CountryCode) THEN s
    ELSE IF SubSeq(s, 1, Len(CountryCode)) = CountryCode
         THEN RemoveAll(SubSeq(s, Len(CountryCode) + 1, Len(s)))
         ELSE <<Head(s)>> \o RemoveAll(Tail(s))

\* str.strip(): leading and trailing whitespace removed
RECURSIVE LStrip(_)
LStrip(s) == IF s # <<>> /\ Head(s) \in Whitespace THEN LStrip(Tail(s)) ELSE s

RECURSIVE RStrip(_)
RStrip(s) ==
    IF s # <<>> /\ s[Len(s)] \in Whitespace
    THEN RStrip(SubSeq(s, 1, Len(s) - 1)) ELSE s

Strip(s) == LStrip(RStrip(s))

\* str.isdigit(): non-empty and every character a (Unicode) digit
IsDigit(s) ==
    s # <<>> /\ \A i \in 1..Len(s) : s[i] \in AsciiDigits \cup UnicodeDigits

----------------------------------------------------------------------------
(* send_sms_fast2sms, app.py:85-121 *)

\* app.py:93
NormalizePhone(p) == Strip(RemoveAll(p))

\* app.py:95
IsValidNumber(p) == IsDigit(p) /\ Len(p) = 10

KeyMissing == [success |-> FALSE, status |-> "FAST2SMS API key missing"]
InvalidNumber ==
    [success |-> FALSE, status |-> "Enter valid Indian mobile number (10 digits)."]
SmsSent == [success |-> TRUE, status |-> "SMS sent successfully!"]
SmsRejected == [success |-> FALSE, status |-> "str(data)"]
SmsError == [success |-> FALSE, status |-> "Error sending SMS: {e}"]
NoReturn == [success |-> FALSE, status |-> ""]

\* a plausible slip: the number is validated before the key is looked at
SmsPrecheckNumberFirst(key, p) ==
    IF ~IsValidNumber(NormalizePhone(p)) THEN "invalid"
    ELSE IF key = "" THEN "nokey"
    ELSE "ok"

\* The two early returns of app.py:89-96, in the code's order
SmsPrecheck(key, p) ==
    IF key = "" THEN "nokey"
    ELSE IF ~IsValidNumber(NormalizePhone(p)) THEN "invalid"
    ELSE "ok"

\* What the gateway can answer: the request raises, the body is not JSON, the
\* JSON is not an object (no .get), or it is an object whose "return" member
\* is one of these JSON values ("absent": no such member)
ReturnFlags == {"true", "false", "1", "\"true\"", "absent"}
GatewayAnswers ==
    {[kind |-> k, ret |-> "absent"] : k \in {"exception", "badjson", "array"}}
    \cup {[kind |-> "object", ret |-> r] : r \in ReturnFlags}
NoAnswer == [kind |-> "none", ret |-> "absent"]

\* Python's data.get("return") == True: JSON true, and the number 1, equal True
PyEqTrue(r) == r \in {"true", "1"}

\* a plausible slip: `if data.get("return"):` -- any truthy value succeeds
SmsResultTruthy(g) ==
    IF g.kind = "object"
    THEN IF g.ret \in {"true", "1", "\"true\""} THEN SmsSent ELSE SmsRejected
    ELSE SmsError

\* app.py:111-121
SmsResult(g) ==
    IF g.kind = "object"
    THEN IF PyEqTrue(g.ret) THEN SmsSent ELSE SmsRejected
    ELSE SmsError

\* app.py:89-96: the credential check, the normalisation, the validation
SendSmsCheck ==
    /\ pc = "sms_entry"
    /\ LET c == SmsPrecheck(FAST2SMS_API_KEY, phone_number) IN
         CASE c = "nokey" ->
                /\ smsRet' = KeyMissing
                /\ pc' = "sms_return"
                /\ UNCHANGED phone_number
           [] c = "invalid" ->
                /\ smsRet' = InvalidNumber
                /\ pc' = "sms_return"
                /\ phone_number' = NormalizePhone(phone_number)
           [] OTHER ->
                /\ pc' = "sms_request"
                /\ phone_number' = NormalizePhone(phone_number)
                /\ UNCHANGED smsRet
    /\ UNCHANGED <<FAST2SMS_API_KEY, WAQI_API_TOKEN, netLog, resp, df, names,
                   lookups, fetchRet, user_location, user_phone, nearest, aqi,
                   category, message, sent, gateway, raised>>

\* app.py:98-121: the one gateway request and the mapping of its answer
SendSmsRequest ==
    /\ pc = "sms_request"
    /\ \E g \in GatewayAnswers :
         /\ gateway' = g
         /\ smsRet' = SmsResult(g)
    /\ netLog' = Append(netLog, "sms")
    /\ sent' = Append(sent, [numbers |-> phone_number, message |-> message])
    /\ pc' = "sms_return"
    /\ UNCHANGED <<FAST2SMS_API_KEY, WAQI_API_TOKEN, resp, df, names, lookups,
                   fetchRet, user_location, user_phone, nearest, aqi, category,
                   message,
                   phone_number, raised>>

----------------------------------------------------------------------------
(* The air-quality provider's data *)

DigitChars == <<"0", "1", "2", "3", "4", "5", "6", "7", "8", "9">>
DigitValue(c) == (CHOOSE i \in 1..Len(DigitChars) : DigitChars[i] = c) - 1

\* the whole number a string of ASCII digits denotes
RECURSIVE DecimalValue(_)
DecimalValue(s) ==
    IF s = <<>> THEN 0
    ELSE 10 * DecimalValue(SubSeq(s, 1, Len(s) - 1)) + DigitValue(s[Len(s)])

IsAsciiDigits(s) == s # <<>> /\ \A i \in 1..Len(s) : s[i] \in AsciiDigits

\* spellings of infinity the float parser accepts
InfinityTexts == {<<"i", "n", "f">>, <<"+", "i", "n", "f">>,
                  <<"I", "n", "f", "i", "n", "i", "t", "y">>}

\* JSON values of a row's "aqi" member
JsonString(t) == [type |-> "string", text |-> t]
JsonNumber(t) == [type |-> "number", text |-> t]
JsonNull == [type |-> "null", text |-> <<>>]

\* pd.to_numeric(..., errors="coerce") on one field, app.py:38
ToNumeric(raw) ==
    CASE raw.type = "null" -> NaN
      [] raw.type = "number" -> Num(DecimalValue(raw.text) * Scale)
      [] IsAsciiDigits(raw.text) -> Num(DecimalValue(raw.text) * Scale)
      [] raw.text \in InfinityTexts -> Inf
      [] OTHER -> NaN

\* Station rows the provider may return.  uid also indexes CityNames; lat and
\* lon are in hundredths of a degree.
ProviderStations ==
    { [uid |-> 1, aqi |-> JsonString(<<"4", "0">>), lat |-> 2864, lon |-> 7722],
      [uid |-> 2, aqi |-> JsonString(<<"1", "6", "0">>), lat |-> 2864, lon |-> 7722],
      [uid |-> 3, aqi |-> JsonNumber(<<"3", "1", "0">>), lat |-> 2870, lon |-> 7730],
      [uid |-> 4, aqi |-> JsonString(<<"-">>), lat |-> 2863, lon |-> 7722],
      [uid |-> 5, aqi |-> JsonString(<<"i", "n", "f">>), lat |-> 2870, lon |-> 7730],
      [uid |-> 6, aqi |-> JsonNull, lat |-> 2864, lon |-> 7722] }

CityNames == <<"Anand Vihar", "ITO", "Mandir Marg", "Punjabi Bagh",
               "R K Puram", "Dwarka">>

\* every payload of at most n rows, a station at most once
RECURSIVE Payloads(_)
Payloads(n) ==
    IF n = 0 THEN {<<>>}
    ELSE LET P == Payloads(n - 1)
         IN  P \cup UNION {{Append(p, r) :
                               r \in {x \in ProviderStations :
                                        \A i \in 1..Len(p) : p[i] # x}} :
                            p \in P}

\* Answers to the bounds request: the request raises or times out, the body
\* is not JSON, the JSON is not an object, the status is not "ok", there is no
\* "data" member, "data" is a string, the rows have no "aqi" or no "uid"
\* member, or the answer is well formed ("ok") with its rows.
BadAnswerKinds == {"exception", "badjson", "notobject", "notok", "nodata",
                   "scalar", "noaqi", "nouid"}
BoundsAnswers ==
    {[kind |-> k, rows |-> <<>>] : k \in BadAnswerKinds}
    \cup {[kind |-> "ok", rows |-> r] : r \in Payloads(MaxRows)}
NoResponse == [kind |-> "none", rows |-> <<>>]

\* app.py:36-38: the DataFrame of the payload, its index the row's position,
\* the aqi column coerced
RawFrame(rows) ==
    [i \in 1..Len(rows) |->
        [idx |-> i, uid |-> rows[i].uid, aqi |-> ToNumeric(rows[i].aqi),
         lat |-> rows[i].lat, lon |-> rows[i].lon]]

KeepRow(r) == ~IsNaN(r.aqi)

\* df.dropna(subset=["aqi"]), app.py:39
DropNa(frame) == SelectSeq(frame, KeepRow)

\* Return values of fetch_live_aqi_data
FetchNone(e) == [data |-> "None", table |-> <<>>, err |-> e]
FetchOk(t) == [data |-> "DataFrame", table |-> t, err |-> "None"]
NotReturned == [data |-> "unset", table |-> <<>>, err |-> "unset"]

\* a plausible slip: only the request and the parse are inside the try
FetchErrorNarrowTry(r) ==
    CASE r.kind = "notok" -> "WAQI API Error: str(j)"
      [] r.kind \in {"exception", "badjson", "notobject"} ->
            "Error fetching AQI data: str(e)"
      [] OTHER -> "None"

\* The error the bounds answer leads to, "None" if it leads to none
\* (app.py:29-39, 43, 55-56).  An empty list makes a frame without columns,
\* so df["aqi"] raises KeyError like a payload without "aqi".
FetchError(r) ==
    CASE r.kind = "notok" -> "WAQI API Error: str(j)"
      [] r.kind = "ok" /\ r.rows # <<>> -> "None"
      [] OTHER -> "Error fetching AQI data: str(e)"

\* Answers to a per-station feed request: a name, or the request raises, the
\* body is not JSON, or the JSON has no data/city/name member
FeedAnswers == {"named", "exception", "badjson", "nofield"}

\* a plausible slip: the lookup's failure is not replaced by the sentinel
StationNameRaw(answer, uid) == IF answer = "named" THEN CityNames[uid] ELSE ""

\* app.py:44-49
StationName(answer, uid) ==
    IF answer = "named" THEN CityNames[uid] ELSE "Unknown Station"

----------------------------------------------------------------------------
(* fetch_live_aqi_data, app.py:21-56 *)

\* app.py:23-24
FetchNoToken ==
    /\ pc = "fetch_entry"
    /\ WAQI_API_TOKEN = ""
    /\ fetchRet' = FetchNone("Missing WAQI API token")
    /\ pc' = "fetch_return"
    /\ UNCHANGED <<FAST2SMS_API_KEY, WAQI_API_TOKEN, netLog, resp, df, names,
                   lookups, user_location, user_phone, nearest, aqi, category,
                   message,
                   phone_number, sent, gateway, smsRet, raised>>

\* app.py:26-39 with the handler of app.py:55-56: the bounds request, the
\* status check, the frame, the coercion and the filter
FetchBounds ==
    /\ pc = "fetch_entry"
    /\ WAQI_API_TOKEN # ""
    /\ netLog' = Append(netLog, "bounds")
    /\ \E r \in BoundsAnswers :
         /\ resp' = r
         /\ IF FetchError(r) # "None"
            THEN /\ fetchRet' = FetchNone(FetchError(r))
                 /\ pc' = "fetch_return"
                 /\ UNCHANGED df
            ELSE /\ df' = DropNa(RawFrame(r.rows))
                 /\ pc' = "fetch_names"
                 /\ UNCHANGED fetchRet
    /\ UNCHANGED <<FAST2SMS_API_KEY, WAQI_API_TOKEN, names, lookups,
                   user_location, user_phone, nearest, aqi, category, message,
                   phone_number, sent, gateway, smsRet, raised>>

\* app.py:43-50: one turn of the loop over df["uid"]
FetchName ==
    /\ pc = "fetch_names"
    /\ Len(names) < Len(df)
    /\ LET uid == df[Len(names) + 1].uid IN
         \E a \in FeedAnswers :
           /\ names' = Append(names, StationName(a, uid))
           /\ lookups' = Append(lookups, [uid |-> uid, answer |-> a])
    /\ netLog' = Append(netLog, "feed")
    /\ UNCHANGED <<FAST2SMS_API_KEY, WAQI_API_TOKEN, pc, resp, df, fetchRet,
                   user_location, user_phone, nearest, aqi, category, message,
                   phone_number, sent, gateway, smsRet, raised>>

\* df["station_name"] = names, positionally (app.py:52)
WithNames(frame, ns) ==
    [i \in 1..Len(frame) |->
        [idx |-> frame[i].idx, uid |-> frame[i].uid, aqi |-> frame[i].aqi,
         lat |-> frame[i].lat, lon |-> frame[i].lon, station_name |-> ns[i]]]

\* app.py:52-53: the loop is over, the column is set, (df, None) is returned
FetchReturn ==
    /\ pc = "fetch_names"
    /\ Len(names) = Len(df)
    /\ df' = WithNames(df, names)
    /\ fetchRet' = FetchOk(df')
    /\ pc' = "fetch_return"
    /\ UNCHANGED <<FAST2SMS_API_KEY, WAQI_API_TOKEN, netLog, resp, names,
                   lookups, user_location, user_phone, nearest, aqi, category,
                   message,
                   phone_number, sent, gateway, smsRet, raised>>

----------------------------------------------------------------------------
(* The script around it, app.py:156-240 *)

\* app.py:159-161: st.error(err); st.stop()
ScriptStop ==
    /\ pc = "fetch_return"
    /\ fetchRet.err # "None"
    /\ pc' = "stopped"
    /\ UNCHANGED <<FAST2SMS_API_KEY, WAQI_API_TOKEN, netLog, resp, df, names,
                   lookups, fetchRet, user_location, user_phone, nearest, aqi,
                   category, message, phone_number, sent, gateway, smsRet, raised>>

\* app.py:163-202: map, histogram and the form (the table is only displayed)
ScriptRender ==
    /\ pc = "fetch_return"
    /\ fetchRet.err = "None"
    /\ pc' = "form"
    /\ UNCHANGED <<FAST2SMS_API_KEY, WAQI_API_TOKEN, netLog, resp, df, names,
                   lookups, fetchRet, user_location, user_phone, nearest, aqi,
                   category, message, phone_number, sent, gateway, smsRet, raised>>

\* What the user may have typed into the two text inputs
Locations == {"", "Connaught Place"}
UserPhones == {<<>>,
               <<"+", "9", "1", "9", "8", "7", "6", "5", "4", "3", "2", "1", "0">>,
               <<"9", "8", "7", "6", "5", "4", "3", "2">>}

\* calculate_distance(28.63, 77.22, lat, lon), app.py:72-78, in metres, for
\* the coordinates of ProviderStations (hundredths of a degree): the values
\* of 2 * 6371 * arcsin(sqrt(a)) of the haversine formula
calculate_distance(lat1, lon1, lat2, lon2) ==
    CASE <<lat1, lon1, lat2, lon2>> = <<2863, 7722, 2863, 7722>> -> 0
      [] <<lat1, lon1, lat2, lon2>> = <<2863, 7722, 2864, 7722>> -> 1112
      [] <<lat1, lon1, lat2, lon2>> = <<2863, 7722, 2870, 7730>> -> 11023

\* app.py:209-211: the distance column
Distance(row) == calculate_distance(2863, 7722, row.lat, row.lon)

\* df.sort_values("distance").iloc[0], app.py:213: the positions of `frame`
\* that can come out first.  sort_values sorts with kind="quicksort", which
\* is not a stable sort, so among rows of equal distance any may come first.
SortFirst(frame) ==
    {i \in 1..Len(frame) :
        \A j \in 1..Len(frame) : Distance(frame[i]) <= Distance(frame[j])}

NoRow == [idx |-> 0, uid |-> 0, aqi |-> NaN, lat |-> 0, lon |-> 0,
          station_name |-> ""]

\* app.py:217-222: the alert text, field by field
AlertMessage(location, row, cat) ==
    [location |-> location, emoji |-> cat[2], aqi |-> row.aqi,
     category |-> cat[1], station |-> row.station_name, advice |-> cat[3]]
NoMessage == [location |-> "", emoji |-> "", aqi |-> NaN, category |-> "",
              station |-> "", advice |-> ""]

\* app.py:204 is false: the run ends with the data table
ScriptNoButton ==
    /\ pc = "form"
    /\ pc' = "done"
    /\ UNCHANGED <<FAST2SMS_API_KEY, WAQI_API_TOKEN, netLog, resp, df, names,
                   lookups, fetchRet, user_location, user_phone, nearest, aqi,
                   category, message, phone_number, sent, gateway, smsRet, raised>>

\* app.py:204-206: the button with an input left empty
AlertMissingInput ==
    /\ pc = "form"
    /\ \E l \in Locations, p \in UserPhones :
         /\ l = "" \/ p = <<>>
         /\ user_location' = l
         /\ user_phone' = p
    /\ pc' = "done"
    /\ UNCHANGED <<FAST2SMS_API_KEY, WAQI_API_TOKEN, netLog, resp, df, names,
                   lookups, fetchRet, nearest, aqi, category, message,
                   phone_number,
                   sent, gateway, smsRet, raised>>

\* app.py:209-213 on a table without rows: df.apply(axis=1) gives back a
\* frame, which newer pandas refuses to set as one column (ValueError), and
\* .iloc[0] of no rows is an IndexError; nothing in the script catches either
AlertEmptyTable ==
    /\ pc = "form"
    /\ df = <<>>
    /\ \E l \in Locations, p \in UserPhones :
         /\ l # "" /\ p # <<>>
         /\ user_location' = l
         /\ user_phone' = p
    /\ \E e \in {"ValueError", "IndexError"} : raised' = e
    /\ pc' = "crashed"
    /\ UNCHANGED <<FAST2SMS_API_KEY, WAQI_API_TOKEN, netLog, resp, df, names,
                   lookups, fetchRet, nearest, aqi, category, message,
                   phone_number,
                   sent, gateway, smsRet>>

\* app.py:209-224: nearest station, its category, the call of
\* send_sms_fast2sms(user_phone, message)
AlertNearest ==
    /\ pc = "form"
    /\ df # <<>>
    /\ \E l \in Locations, p \in UserPhones :
         /\ l # "" /\ p # <<>>
         /\ user_location' = l
         /\ user_phone' = p
         /\ phone_number' = p
    /\ \E i \in SortFirst(df) :
         /\ nearest' = df[i]
         /\ aqi' = df[i].aqi
         /\ category' = get_aqi_category(df[i].aqi)
    /\ message' = AlertMessage(user_location', nearest', category')
    /\ pc' = "sms_entry"
    /\ UNCHANGED <<FAST2SMS_API_KEY, WAQI_API_TOKEN, netLog, resp, df, names,
                   lookups, fetchRet, sent, gateway, smsRet, raised>>

\* app.py:226-240: st.success / st.error, then the data table
AlertResult ==
    /\ pc = "sms_return"
    /\ pc' = "done"
    /\ UNCHANGED <<FAST2SMS_API_KEY, WAQI_API_TOKEN, netLog, resp, df, names,
                   lookups, fetchRet, user_location, user_phone, nearest, aqi,
                   category, message, phone_number, sent, gateway, smsRet, raised>>

\* get_aqi_category called on its own
Classify ==
    /\ pc = "classify"
    /\ category' = get_aqi_category(aqi)
    /\ pc' = "classified"
    /\ UNCHANGED <<FAST2SMS_API_KEY, WAQI_API_TOKEN, netLog, resp, df, names,
                   lookups, fetchRet, user_location, user_phone, nearest, aqi,
                   message, phone_number, sent, gateway, smsRet, raised>>

----------------------------------------------------------------------------
(* Specifications *)

Credentials == {"", "secret"}

\* One run of the script, from the process start
Init ==
    /\ FAST2SMS_API_KEY \in Credentials
    /\ WAQI_API_TOKEN \in Credentials
    /\ pc = "fetch_entry"
    /\ netLog = <<>>
    /\ resp = NoResponse
    /\ df = <<>>
    /\ names = <<>>
    /\ lookups = <<>>
    /\ fetchRet = NotReturned
    /\ user_location = ""
    /\ user_phone = <<>>
    /\ nearest = NoRow
    /\ aqi = NaN
    /\ category = NoCategory
    /\ message = NoMessage
    /\ phone_number = <<>>
    /\ sent = <<>>
    /\ gateway = NoAnswer
    /\ smsRet = NoReturn
    /\ raised = "none"

Next ==
    \/ FetchNoToken
    \/ FetchBounds
    \/ FetchName
    \/ FetchReturn
    \/ ScriptStop
    \/ ScriptRender
    \/ ScriptNoButton
    \/ AlertMissingInput
    \/ AlertEmptyTable
    \/ AlertNearest
    \/ SendSmsCheck
    \/ SendSmsRequest
    \/ AlertResult

Spec == Init /\ [][Next]_vars

\* Pieces a phone argument is put together from
Segments ==
    { <<"+", "9", "1">>,
      <<" ">>,
      <<"9", "8", "7", "6", "5">>,
      <<"4", "3", "2", "1", "0">>,
      <<"9", "8", "7", "6", "5", "4", "3", "2">>,
      <<"a", "b", "c", "d", "e", "f", "g", "h", "i", "j">>,
      <<"U+0663 ARABIC-INDIC DIGIT THREE">> }

RECURSIVE PhoneInputs(_)
PhoneInputs(n) ==
    IF n = 0 THEN {<<>>}
    ELSE LET P == PhoneInputs(n - 1)
         IN  P \cup {p \o s : p \in P, s \in Segments}

\* send_sms_fast2sms(phone, message) called on its own, for every phone
\* argument; user_phone keeps the argument as the caller passed it
InitSms ==
    /\ FAST2SMS_API_KEY \in Credentials
    /\ WAQI_API_TOKEN = ""
    /\ pc = "sms_entry"
    /\ netLog = <<>>
    /\ resp = NoResponse
    /\ df = <<>>
    /\ names = <<>>
    /\ lookups = <<>>
    /\ fetchRet = NotReturned
    /\ user_location = "Connaught Place"
    /\ user_phone \in PhoneInputs(MaxSegs)
    /\ nearest = NoRow
    /\ aqi = NaN
    /\ category = NoCategory
    /\ message = NoMessage
    /\ phone_number = user_phone
    /\ sent = <<>>
    /\ gateway = NoAnswer
    /\ smsRet = NoReturn
    /\ raised = "none"

NextSms ==
    \/ SendSmsCheck
    \/ SendSmsRequest

SpecSms == InitSms /\ [][NextSms]_vars

\* AQI values the classifier is tried on: every whole value of
\* -MaxAqi..MaxAqi, its two neighbours at the resolution, and the infinities
AqiInputs ==
    {Num(n * Scale + f) : n \in (0 - MaxAqi)..MaxAqi, f \in {-1, 0, 1}}
    \cup {Inf, NegInf}

\* get_aqi_category(v) called on its own, for every v
InitCategory ==
    /\ FAST2SMS_API_KEY = ""
    /\ WAQI_API_TOKEN = ""
    /\ pc = "classify"
    /\ netLog = <<>>
    /\ resp = NoResponse
    /\ df = <<>>
    /\ names = <<>>
    /\ lookups = <<>>
    /\ fetchRet = NotReturned
    /\ user_location = ""
    /\ user_phone = <<>>
    /\ nearest = NoRow
    /\ aqi \in AqiInputs
    /\ category = NoCategory
    /\ message = NoMessage
    /\ phone_number = <<>>
    /\ sent = <<>>
    /\ gateway = NoAnswer
    /\ smsRet = NoReturn
    /\ raised = "none"

NextCategory == Classify

SpecCategory == InitCategory /\ [][NextCategory]_vars

----------------------------------------------------------------------------
(* Claims *)

Good == <<"Good", "green circle", "Air quality is ideal.">>
Moderate == <<"Moderate", "yellow circle", "Acceptable air quality.">>
Sensitive == <<"Unhealthy for Sensitive Groups", "orange circle",
               "Sensitive groups should reduce activity.">>
Unhealthy == <<"Unhealthy", "red circle",
               "General public should reduce outdoor activity.">>
VeryUnhealthy == <<"Very Unhealthy", "purple circle",
                   "Everyone may experience health effects.">>
Hazardous == <<"Hazardous", "black circle", "Avoid going outdoors.">>

\* C1: get_aqi_category(v) is one of the six triples, and which one is
\* decided by the band v lies in: v <= 50 Good, 50 < v <= 100 Moderate,
\* 100 < v <= 150 Unhealthy for Sensitive Groups, 150 < v <= 200 Unhealthy,
\* 200 < v <= 300 Very Unhealthy, v > 300 Hazardous; an upper bound belongs
\* to the lower band and negative values are Good.
C1_BandsPartition ==
    pc = "classified" =>
        /\ category \in {Good, Moderate, Sensitive, Unhealthy, VeryUnhealthy,
                         Hazardous}
        /\ category = Good <=> FloatLe(aqi, 50)
        /\ category = Moderate <=> FloatGt(aqi, 50) /\ FloatLe(aqi, 100)
        /\ category = Sensitive <=> FloatGt(aqi, 100) /\ FloatLe(aqi, 150)
        /\ category = Unhealthy <=> FloatGt(aqi, 150) /\ FloatLe(aqi, 200)
        /\ category = VeryUnhealthy <=> FloatGt(aqi, 200) /\ FloatLe(aqi, 300)
        /\ category = Hazardous <=> FloatGt(aqi, 300)

\* C1 witness: the classifier has run on a threshold, on the value just above
\* it, or on a negative value
C1_Witness ==
    /\ pc = "classified"
    /\ aqi = Num(300 * Scale)
    /\ category = VeryUnhealthy

\* C2 as stated: 40, 160 and 310 are classified Good, Unhealthy for Sensitive
\* Groups and Hazardous.
C2_Original ==
    pc = "classified" =>
        /\ aqi = Num(40 * Scale) => category[1] = "Good"
        /\ aqi = Num(160 * Scale) => category[1] = "Unhealthy for Sensitive Groups"
        /\ aqi = Num(310 * Scale) => category[1] = "Hazardous"

\* C2, amended: 40, 160 and 310 are classified Good, Unhealthy and Hazardous.
C2_Amended ==
    pc = "classified" =>
        /\ aqi = Num(40 * Scale) => category[1] = "Good"
        /\ aqi = Num(160 * Scale) => category[1] = "Unhealthy"
        /\ aqi = Num(310 * Scale) => category[1] = "Hazardous"

\* C2 witness: 160 has been classified
C2_Witness ==
    /\ pc = "classified"
    /\ aqi = Num(160 * Scale)
    /\ category = Unhealthy

\* C3: without a credential send_sms_fast2sms issues no request and returns
\* (False, "FAST2SMS API key missing") whatever the phone number is.
C3_KeyCheckedFirst ==
    FAST2SMS_API_KEY = "" =>
        /\ netLog = <<>>
        /\ sent = <<>>
        /\ pc # "sms_request"
        /\ pc = "sms_return" =>
              /\ smsRet.success = FALSE
              /\ smsRet.status = "FAST2SMS API key missing"

\* C3 witness: the call has returned for an invalid number, without a key
C3_Witness ==
    /\ FAST2SMS_API_KEY = ""
    /\ pc = "sms_return"
    /\ user_phone = <<"9", "8", "7", "6", "5", "4", "3", "2">>

\* The normalisation C4 describes: the input trimmed, one leading "+91"
\* removed, the rest trimmed
StripLeadingCode(p) ==
    IF Len(p) >= Len(CountryCode) /\ SubSeq(p, 1, Len(CountryCode)) = CountryCode
    THEN SubSeq(p, Len(CountryCode) + 1, Len(p)) ELSE p
ClaimedNormalize(p) == Strip(StripLeadingCode(Strip(p)))
IsTenAsciiDigits(p) == Len(p) = 10 /\ \A i \in 1..Len(p) : p[i] \in AsciiDigits

\* C4 as stated: with a credential, a number is accepted (a request is made)
\* exactly if what remains after removing a leading "+91" and trimming is 10
\* ASCII digits; the number sent is that remainder; any other input returns
\* the invalid-number error with no request made.
C4_Original ==
    (FAST2SMS_API_KEY # "" /\ pc = "sms_return") =>
        IF IsTenAsciiDigits(ClaimedNormalize(user_phone))
        THEN /\ Len(sent) = 1
             /\ sent[1].numbers = ClaimedNormalize(user_phone)
        ELSE /\ sent = <<>>
             /\ netLog = <<>>
             /\ smsRet.status = "Enter valid Indian mobile number (10 digits)."

\* Positions of the fetch's requests in netLog
FeedCalls == {i \in 1..Len(netLog) : netLog[i] = "feed"}
BoundsCalls == {i \in 1..Len(netLog) : netLog[i] = "bounds"}
FetchReturned == fetchRet # NotReturned

\* C5: fetch_live_aqi_data returns (table, no error) or (nothing, an error),
\* never both and never neither, and raises nothing; without a token, or
\* when the bounds request fails, its body does not parse, its status is not
\* "ok" or its payload is malformed, it returns (nothing, error) and has
\* issued no name lookup.
C5_TableOrError ==
    /\ pc \in {"fetch_entry", "fetch_names", "fetch_return"} => raised = "none"
    /\ FetchReturned =>
          /\ \/ fetchRet.data = "DataFrame" /\ fetchRet.err = "None"
             \/ fetchRet.data = "None" /\ fetchRet.err # "None"
          /\ (WAQI_API_TOKEN = "" \/ resp.kind \in BadAnswerKinds) =>
                /\ fetchRet.data = "None"
                /\ fetchRet.err # "None"
                /\ lookups = <<>>
                /\ FeedCalls = {}
          /\ WAQI_API_TOKEN = "" => netLog = <<>>

\* C5 witness: the fetch has returned an error for a payload without "uid"
C5_Witness ==
    /\ FetchReturned
    /\ resp.kind = "nouid"
    /\ fetchRet.err = "Error fetching AQI data: str(e)"

\* Positions of the payload whose "aqi" member is a finite number or a string
\* that spells one
IsFiniteNumberField(raw) ==
    \/ raw.type = "number"
    \/ raw.type = "string" /\ IsAsciiDigits(raw.text)
FiniteRows == {i \in 1..Len(resp.rows) : IsFiniteNumberField(resp.rows[i].aqi)}

\* C6 as stated: a returned table holds only rows with a finite numeric AQI,
\* and they are the payload's rows with a numeric AQI field, in payload order.
C6_Original ==
    fetchRet.data = "DataFrame" =>
        /\ \A i \in 1..Len(fetchRet.table) : IsFinite(fetchRet.table[i].aqi)
        /\ {fetchRet.table[i].idx : i \in 1..Len(fetchRet.table)} = FiniteRows
        /\ \A i, j \in 1..Len(fetchRet.table) :
              i < j => fetchRet.table[i].idx < fetchRet.table[j].idx

\* C7: a successful fetch has issued one bounds request and then one feed
\* request per surviving row, in row order; a row's station_name is the name
\* its own lookup returned, or "Unknown Station" when that lookup failed; a
\* failed lookup does not turn the result into an error.
C7_NameLookups ==
    /\ pc = "fetch_names" =>
          /\ Len(lookups) = Len(names)
          /\ Len(names) <= Len(df)
          /\ netLog = <<"bounds">> \o [i \in 1..Len(lookups) |-> "feed"]
    /\ fetchRet.data = "DataFrame" =>
          LET t == fetchRet.table IN
          /\ Len(lookups) = Len(t)
          /\ BoundsCalls = {1}
          /\ FeedCalls = 2..(Len(t) + 1)
          /\ \A i \in 1..Len(t) :
                /\ lookups[i].uid = t[i].uid
                /\ t[i].station_name =
                      IF lookups[i].answer = "named"
                      THEN CityNames[t[i].uid] ELSE "Unknown Station"
    /\ (FetchReturned /\ WAQI_API_TOKEN # "" /\ resp.kind = "ok"
          /\ resp.rows # <<>>) => fetchRet.data = "DataFrame"

\* C7 witness: a table of two rows or more whose first lookup failed and whose
\* second succeeded
C7_Witness ==
    /\ fetchRet.data = "DataFrame"
    /\ Len(fetchRet.table) >= 2
    /\ lookups[1].answer = "exception"
    /\ lookups[2].answer = "named"
    /\ fetchRet.table[1].station_name = "Unknown Station"
    /\ fetchRet.table[2].station_name = CityNames[fetchRet.table[2].uid]

HandlerRan == user_location # "" /\ user_phone # <<>>

\* C8 as stated: the row the handler picks has the least distance of the
\* table, and of the rows at that distance it is the first of the table.
C8_Original ==
    (HandlerRan /\ nearest # NoRow) =>
        \A i \in 1..Len(df) :
            /\ Distance(nearest) <= Distance(df[i])
            /\ Distance(df[i]) = Distance(nearest) => nearest.idx <= df[i].idx

\* C9: with a credential and a number that passes validation, the call makes
\* one gateway request and no second one, raises nothing, and returns success
\* exactly when the answer is a JSON object whose "return" equals True;
\* otherwise it returns False with the response text (an object without a
\* true flag) or the exception text (request or parse failure).
C9_OneRequest ==
    /\ Len(sent) <= 1
    /\ (FAST2SMS_API_KEY # "" /\ IsValidNumber(NormalizePhone(user_phone))
          /\ pc = "sms_return") =>
          /\ netLog = <<"sms">>
          /\ Len(sent) = 1
          /\ sent[1].numbers = NormalizePhone(user_phone)
          /\ sent[1].message = message
          /\ raised = "none"
          /\ smsRet.success <=> (gateway.kind = "object" /\ gateway.ret \in {"true", "1"})
          /\ smsRet.success => smsRet.status = "SMS sent successfully!"
          /\ (~smsRet.success /\ gateway.kind = "object") => smsRet.status = "str(data)"
          /\ gateway.kind # "object" => smsRet.status = "Error sending SMS: {e}"

\* C9 witness: the gateway answered with a false flag to the one request
C9_Witness ==
    /\ pc = "sms_return"
    /\ FAST2SMS_API_KEY # ""
    /\ gateway = [kind |-> "object", ret |-> "false"]
    /\ Len(sent) = 1
    /\ sent[1].numbers = <<"9", "8", "7", "6", "5", "4", "3", "2", "1", "0">>
    /\ smsRet.success = FALSE

\* C10 as stated: after a successful fetch, the alert action with both inputs
\* filled in selects a nearest station and calls send_sms_fast2sms once, and
\* no exception escapes, whatever table the fetch returned.
C10_Original ==
    (fetchRet.data = "DataFrame" /\ HandlerRan) =>
        /\ raised = "none"
        /\ nearest # NoRow
        /\ pc = "done" => smsRet # NoReturn

====
